---- MODULE Spec2Model ----
(***************************************************************************)
(* A model of src/lib.rs: the Request aggregate of http_parse, its         *)
(* mutators, parse_from_str (text -> Request) and build (Request -> text). *)
(*                                                                         *)
(* Text is modelled as a sequence of one-character strings, so that        *)
(* splitting, searching, lower-casing and joining are computed character   *)
(* by character, the way the std library computes them.                    *)
(***************************************************************************)
EXTENDS Naturals, Sequences, FiniteSets

VARIABLES
    req,     \* the Request under test (struct Request, lib.rs 93-102)
    call,    \* the last operation applied to req, with its arguments
    input,   \* the text handed to parse_from_str in the pipeline
    built,   \* the String returned by the last build()
    copy,    \* a second Request, parsed from built
    pc       \* position of the pipeline / harness

vars == <<req, call, input, built, copy, pc>>

----------------------------------------------------------------------------
(* Characters and text                                                     *)

SP == " "
CR == "\r"
LF == "\n"
CRLF == <<CR, LF>>

\* char::to_lowercase on the ASCII letters (str::to_lowercase, per character)
LowerOf ==
    [A |-> "a", B |-> "b", C |-> "c", D |-> "d", E |-> "e", F |-> "f",
     G |-> "g", H |-> "h", I |-> "i", J |-> "j", K |-> "k", L |-> "l",
     M |-> "m", N |-> "n", O |-> "o", P |-> "p", Q |-> "q", R |-> "r",
     S |-> "s", T |-> "t", U |-> "u", V |-> "v", W |-> "w", X |-> "x",
     Y |-> "y", Z |-> "z"]

Lower(c) == IF c \in DOMAIN LowerOf THEN LowerOf[c] ELSE c

to_lowercase(s) == [i \in DOMAIN s |-> Lower(s[i])]

StartsWith(s, p) == Len(s) >= Len(p) /\ SubSeq(s, 1, Len(p)) = p

\* str::contains(&str)
Contains(s, p) ==
    \E i \in 1..(Len(s) + 1) :
        i + Len(p) - 1 <= Len(s) /\ SubSeq(s, i, i + Len(p) - 1) = p

\* str::split(&str): every non-overlapping match, left to right, separates
\* two parts; the empty text splits into one empty part.
RECURSIVE SplitAcc(_, _, _)
SplitAcc(rest, pat, cur) ==
    IF rest = <<>> THEN <<cur>>
    ELSE IF StartsWith(rest, pat)
         THEN <<cur>> \o SplitAcc(SubSeq(rest, Len(pat) + 1, Len(rest)), pat, <<>>)
         ELSE SplitAcc(Tail(rest), pat, Append(cur, Head(rest)))

Split(s, pat) == SplitAcc(s, pat, <<>>)

\* [String]::join(sep)
RECURSIVE Join(_, _)
Join(parts, sep) ==
    IF parts = <<>> THEN <<>>
    ELSE IF Len(parts) = 1 THEN parts[1]
    ELSE parts[1] \o sep \o Join(Tail(parts), sep)

\* concatenation of a sequence of texts
RECURSIVE Cat(_)
Cat(texts) == IF texts = <<>> THEN <<>> ELSE texts[1] \o Cat(Tail(texts))

StripCR(s) ==
    IF s # <<>> /\ s[Len(s)] = CR THEN SubSeq(s, 1, Len(s) - 1) ELSE s

\* str::lines(): pieces end at "\n"; a piece that ended at "\n" loses one
\* "\r" before it; a last piece without "\n" is kept as it is; no piece
\* follows a final "\n".
Lines(s) ==
    LET raw == Split(s, <<LF>>)
        n   == Len(raw)
        m   == IF raw[n] = <<>> THEN n - 1 ELSE n
    IN  [i \in 1..m |-> IF i < n THEN StripCR(raw[i]) ELSE raw[i]]

----------------------------------------------------------------------------
(* Method (lib.rs 64-90)                                                   *)

Methods ==
    {"GET", "POST", "PUT", "DELETE", "HEAD", "OPTIONS", "CONNECT", "TRACE", "PATCH"}

\* impl fmt::Display for Method
MethodText(m) ==
    CASE m = "GET"     -> <<"G", "E", "T">>
      [] m = "POST"    -> <<"P", "O", "S", "T">>
      [] m = "PUT"     -> <<"P", "U", "T">>
      [] m = "DELETE"  -> <<"D", "E", "L", "E", "T", "E">>
      [] m = "HEAD"    -> <<"H", "E", "A", "D">>
      [] m = "OPTIONS" -> <<"O", "P", "T", "I", "O", "N", "S">>
      [] m = "CONNECT" -> <<"C", "O", "N", "N", "E", "C", "T">>
      [] m = "TRACE"   -> <<"T", "R", "A", "C", "E">>
      [] m = "PATCH"   -> <<"P", "A", "T", "C", "H">>

----------------------------------------------------------------------------
(* Header, Query, Request                                                  *)

Header(name, value) == [name |-> name, value |-> value]

Query(name, value) == [name |-> name, value |-> value]

HTTP11 == <<"H", "T", "T", "P", "/", "1", ".", "1">>

\* Request::new
New ==
    [headers     |-> <<>>,
     query       |-> <<>>,
     body        |-> <<>>,
     method      |-> "GET",
     path        |-> <<>>,
     full_path   |-> <<>>,
     version     |-> HTTP11,
     initialized |-> FALSE]

set_body(r, body) == [r EXCEPT !.initialized = TRUE, !.body = body]

set_version(r, version) == [r EXCEPT !.initialized = TRUE, !.version = version]

set_method(r, method) == [r EXCEPT !.initialized = TRUE, !.method = method]

set_full_path(r, full_path) == [r EXCEPT !.initialized = TRUE, !.full_path = full_path]

set_path(r, path) == [r EXCEPT !.initialized = TRUE, !.path = path]

\* mutant of HasHeader: the names are compared as stored, case and all
HasHeaderExact(hs, name) == \E i \in DOMAIN hs : hs[i].name = name

\* headers.iter().any(|h| h.name().to_lowercase() == name.to_lowercase())
HasHeader(hs, name) ==
    \E i \in DOMAIN hs : to_lowercase(hs[i].name) = to_lowercase(name)

\* position of headers.iter_mut().find(...)
FirstHeader(hs, name) ==
    CHOOSE i \in DOMAIN hs :
        /\ to_lowercase(hs[i].name) = to_lowercase(name)
        /\ \A j \in 1..(i - 1) : to_lowercase(hs[j].name) # to_lowercase(name)

set_header(r, header_name, header_value) ==
    IF HasHeader(r.headers, header_name)
    THEN [r EXCEPT !.initialized = TRUE,
                   !.headers[FirstHeader(r.headers, header_name)].value = header_value]
    ELSE [r EXCEPT !.initialized = TRUE,
                   !.headers = Append(r.headers, Header(header_name, header_value))]

\* mutant of add_header: the header is pushed without the check for its name
add_header_push(r, header_name, header_value) ==
    [r EXCEPT !.initialized = TRUE,
              !.headers = Append(r.headers, Header(header_name, header_value))]

add_header(r, header_name, header_value) ==
    IF HasHeader(r.headers, header_name)
    THEN set_header([r EXCEPT !.initialized = TRUE], header_name, header_value)
    ELSE [r EXCEPT !.initialized = TRUE,
                   !.headers = Append(r.headers, Header(header_name, header_value))]

\* query.iter().any(|q| q.name() == name)
HasQuery(qs, name) == \E i \in DOMAIN qs : qs[i].name = name

FirstQuery(qs, name) ==
    CHOOSE i \in DOMAIN qs :
        /\ qs[i].name = name
        /\ \A j \in 1..(i - 1) : qs[j].name # name

set_query(r, query_name, query_value) ==
    IF HasQuery(r.query, query_name)
    THEN [r EXCEPT !.initialized = TRUE,
                   !.query[FirstQuery(r.query, query_name)].value = query_value]
    ELSE [r EXCEPT !.initialized = TRUE,
                   !.query = Append(r.query, Query(query_name, query_value))]

add_query(r, query_name, query_value) ==
    IF HasQuery(r.query, query_name)
    THEN set_query([r EXCEPT !.initialized = TRUE], query_name, query_value)
    ELSE [r EXCEPT !.initialized = TRUE,
                   !.query = Append(r.query, Query(query_name, query_value))]

----------------------------------------------------------------------------
(* build (lib.rs 301-315)                                                  *)

\* the loop over self.query: each pair is pushed after "&" when the text
\* built so far contains "?", after "?" otherwise
RECURSIVE PushQueries(_, _)
PushQueries(new_path, qs) ==
    IF qs = <<>> THEN new_path
    ELSE PushQueries(
            new_path
              \o (IF Contains(new_path, <<"?">>) THEN <<"&">> ELSE <<"?">>)
              \o qs[1].name \o <<"=">> \o qs[1].value,
            Tail(qs))

HeaderLine(h) == h.name \o <<":", SP>> \o h.value

\* mutant of build: one CRLF, not two, ends the header lines
build_no_blank_line(r) ==
    LET new_path == PushQueries(r.path, r.query)
        lines    == <<MethodText(r.method) \o <<SP>> \o new_path \o <<SP>> \o r.version>>
                    \o [i \in DOMAIN r.headers |-> HeaderLine(r.headers[i])]
    IN  Join(lines, CRLF) \o CRLF \o r.body

\* mutant of build: the target starts from the full_path kept at parse time
build_from_full_path(r) ==
    LET new_path == PushQueries(r.full_path, r.query)
        lines    == <<MethodText(r.method) \o <<SP>> \o new_path \o <<SP>> \o r.version>>
                    \o [i \in DOMAIN r.headers |-> HeaderLine(r.headers[i])]
    IN  Join(lines, CRLF) \o CRLF \o CRLF \o r.body

build(r) ==
    LET new_path == PushQueries(r.path, r.query)
        lines    == <<MethodText(r.method) \o <<SP>> \o new_path \o <<SP>> \o r.version>>
                    \o [i \in DOMAIN r.headers |-> HeaderLine(r.headers[i])]
    IN  Join(lines, CRLF) \o CRLF \o CRLF \o r.body

----------------------------------------------------------------------------
(* parse (lib.rs 317-400)                                                  *)

\* mutant of parse_header_line: the line is split at its first ": " only
parse_header_line_split_once(r, line) ==
    LET parts == Split(line, <<":", SP>>)
        value == Join(Tail(parts), <<":", SP>>)
    IN  IF Len(parts) < 2 THEN r
        ELSE IF HasHeader(r.headers, parts[1]) THEN r
        ELSE [r EXCEPT !.headers = Append(r.headers, Header(parts[1], value))]

parse_header_line(r, line) ==
    LET parts == Split(line, <<":", SP>>)
    IN  IF Len(parts) # 2 THEN r
        ELSE IF HasHeader(r.headers, parts[1]) THEN r
        ELSE [r EXCEPT !.headers = Append(r.headers, Header(parts[1], parts[2]))]

\* the loop over the "&"-separated pairs
RECURSIVE PushPairs(_, _)
PushPairs(qs, queries) ==
    IF queries = <<>> THEN qs
    ELSE LET query_parts == Split(queries[1], <<"=">>)
         IN  IF Len(query_parts) # 2
             THEN PushPairs(qs, Tail(queries))
             ELSE PushPairs(Append(qs, Query(query_parts[1], query_parts[2])),
                            Tail(queries))

\* mutant of parse_query_string: the pairs are read whenever a "?" is there
parse_query_string_any(r, string) ==
    LET parts == Split(string, <<"?">>)
        r1    == [r EXCEPT !.path = parts[1]]
    IN  IF Len(parts) >= 2
        THEN [r1 EXCEPT !.query = PushPairs(r1.query, Split(parts[2], <<"&">>))]
        ELSE r1

parse_query_string(r, string) ==
    LET parts == Split(string, <<"?">>)
        r1    == [r EXCEPT !.path = parts[1]]
    IN  IF Len(parts) = 2
        THEN [r1 EXCEPT !.query = PushPairs(r1.query, Split(parts[2], <<"&">>))]
        ELSE r1

\* mutant of parse_method_line: the target is stored before the method
\* token is looked at
parse_method_line_eager(r, line) ==
    LET parts == Split(line, <<SP>>)
    IN  IF Len(parts) # 3 THEN r
        ELSE LET r1 == parse_query_string([r EXCEPT !.full_path = parts[2]], parts[2])
             IN  IF ~ \E m \in Methods : MethodText(m) = parts[1] THEN r1
                 ELSE [r1 EXCEPT !.method = CHOOSE m \in Methods : MethodText(m) = parts[1]]

parse_method_line(r, line) ==
    LET parts == Split(line, <<SP>>)
    IN  IF Len(parts) # 3 THEN r
        ELSE IF ~ \E m \in Methods : MethodText(m) = parts[1] THEN r
        ELSE LET m == CHOOSE m \in Methods : MethodText(m) = parts[1]
             IN  parse_query_string(
                    [r EXCEPT !.method = m, !.full_path = parts[2]], parts[2])

\* the loop of parse_request over request.lines().enumerate(); st carries
\* self, body_lines and read_body
\* (lines are numbered from 1 here, from 0 in the code: i = 1 is line 0)
RECURSIVE ParseLines(_, _, _)
ParseLines(st, lines, i) ==
    IF i > Len(lines) THEN st
    ELSE LET line == lines[i]
         IN  IF i = 1
             THEN ParseLines([st EXCEPT !.r = parse_method_line(st.r, line)], lines, i + 1)
             ELSE IF line = <<>>
             THEN ParseLines(
                    IF st.r.method = "POST" \/ st.r.method = "PUT"
                    THEN [st EXCEPT !.read_body = TRUE] ELSE st,
                    lines, i + 1)
             ELSE IF st.read_body
             THEN ParseLines([st EXCEPT !.body_lines = Append(st.body_lines, line)],
                             lines, i + 1)
             ELSE IF Contains(line, <<":", SP>>)
             THEN ParseLines([st EXCEPT !.r = parse_header_line(st.r, line)], lines, i + 1)
             ELSE ParseLines(st, lines, i + 1)

\* mutant of parse_request: the collections are cleared before the lines are read
parse_request_reset(r, request) ==
    LET st == ParseLines([r |-> [r EXCEPT !.headers = <<>>, !.query = <<>>],
                          body_lines |-> <<>>, read_body |-> FALSE],
                         Lines(request), 1)
    IN  [st.r EXCEPT !.body = Join(st.body_lines, CRLF), !.initialized = TRUE]

parse_request(r, request) ==
    LET st == ParseLines([r |-> r, body_lines |-> <<>>, read_body |-> FALSE],
                         Lines(request), 1)
    IN  [st.r EXCEPT !.body = Join(st.body_lines, CRLF), !.initialized = TRUE]

parse_from_str(r, request) == parse_request(r, request)

----------------------------------------------------------------------------
(* The Request as a state machine: any sequence of mutators and parses     *)

\* bound on the length of the query collection (parse appends without limit)
MaxQuery == 2

\* arguments offered to set_header and add_header
Names == {<<"a">>, <<"A">>, <<"b">>}

Values == {<<"1">>, <<"2">>}

\* arguments offered to set_query and add_query
QueryNames == {<<"a">>, <<"A">>}

QueryValues == {<<"2">>}

HTTP10 == <<"H", "T", "T", "P", "/", "1", ".", "0">>

Pair(n, v) == n \o <<"=">> \o v

ReqLine(m, target, version) == m \o <<SP>> \o target \o <<SP>> \o version

\* request texts offered to parse_from_str in the state machine
ApiTexts ==
    { \* a target that repeats a parameter name; a header that repeats a name
      Join(<<ReqLine(MethodText("GET"),
                     <<"/", "?">> \o Pair(<<"a">>, <<"1">>) \o <<"&">> \o Pair(<<"a">>, <<"2">>),
                     HTTP11),
             HeaderLine(Header(<<"A">>, <<"1">>)),
             HeaderLine(Header(<<"a">>, <<"2">>)),
             <<>>, <<>>>>, CRLF),
      \* a body-bearing method, LF line ends, another version token
      Join(<<ReqLine(MethodText("POST"), <<"/", "?">> \o Pair(<<"b">>, <<"1">>), HTTP10),
             HeaderLine(Header(<<"b">>, <<"2">>)),
             <<>>,
             <<"x">>>>, <<LF>>),
      \* no request line: the method of the Request decides what follows
      Join(<<<<>>, <<>>, HeaderLine(Header(<<"A">>, <<"2">>))>>, <<LF>>) }

NoCall == [op |-> "new", a1 |-> <<>>, a2 |-> <<>>]

Call(op, a1, a2) == [op |-> op, a1 |-> a1, a2 |-> a2]

Init ==
    /\ req = New
    /\ call = NoCall
    /\ input = <<>>
    /\ built = <<>>
    /\ copy = New
    /\ pc = "api"

Idle == UNCHANGED <<input, built, copy, pc>>

SetBody ==
    \E b \in {<<"x">>} :
        /\ pc = "api"
        /\ req' = set_body(req, b)
        /\ call' = Call("set_body", b, <<>>)
        /\ Idle

SetVersion ==
    \E v \in {HTTP10} :
        /\ pc = "api"
        /\ req' = set_version(req, v)
        /\ call' = Call("set_version", v, <<>>)
        /\ Idle

SetMethod ==
    \E m \in {"POST"} :
        /\ pc = "api"
        /\ req' = set_method(req, m)
        /\ call' = Call("set_method", m, <<>>)
        /\ Idle

SetFullPath ==
    \E p \in {<<"/">>} :
        /\ pc = "api"
        /\ req' = set_full_path(req, p)
        /\ call' = Call("set_full_path", p, <<>>)
        /\ Idle

SetPath ==
    \E p \in {<<"/">>} :
        /\ pc = "api"
        /\ req' = set_path(req, p)
        /\ call' = Call("set_path", p, <<>>)
        /\ Idle

SetHeader ==
    \E n \in Names, v \in Values :
        /\ pc = "api"
        /\ req' = set_header(req, n, v)
        /\ call' = Call("set_header", n, v)
        /\ Idle

AddHeader ==
    \E n \in Names, v \in Values :
        /\ pc = "api"
        /\ req' = add_header(req, n, v)
        /\ call' = Call("add_header", n, v)
        /\ Idle

SetQuery ==
    \E n \in QueryNames, v \in QueryValues :
        /\ pc = "api"
        /\ Len(set_query(req, n, v).query) <= MaxQuery
        /\ req' = set_query(req, n, v)
        /\ call' = Call("set_query", n, v)
        /\ Idle

AddQuery ==
    \E n \in QueryNames, v \in QueryValues :
        /\ pc = "api"
        /\ Len(add_query(req, n, v).query) <= MaxQuery
        /\ req' = add_query(req, n, v)
        /\ call' = Call("add_query", n, v)
        /\ Idle

ParseFromStr ==
    \E t \in ApiTexts :
        /\ pc = "api"
        /\ Len(parse_from_str(req, t).query) <= MaxQuery
        /\ req' = parse_from_str(req, t)
        /\ call' = Call("parse_from_str", t, <<>>)
        /\ Idle

Next ==
    \/ SetBody
    \/ SetVersion
    \/ SetMethod
    \/ SetFullPath
    \/ SetPath
    \/ SetHeader
    \/ AddHeader
    \/ SetQuery
    \/ AddQuery
    \/ ParseFromStr

Spec == Init /\ [][Next]_vars

----------------------------------------------------------------------------
(* Claims about the state machine                                          *)

SameNameCI(x, y) == to_lowercase(x) = to_lowercase(y)

\* C1: in every reachable state no two entries of headers have names that
\* are equal under case-insensitive comparison.
C1_HeaderNamesUnique ==
    \A i, j \in DOMAIN req.headers :
        i # j => ~ SameNameCI(req.headers[i].name, req.headers[j].name)

\* C1 witness: parse_from_str read the header lines "A: 1" and "a: 2" into
\* a Request that already held another header; only the first was stored.
C1_Witness ==
    /\ call.op = "parse_from_str"
    /\ Contains(call.a1, HeaderLine(Header(<<"A">>, <<"1">>)))
    /\ Contains(call.a1, HeaderLine(Header(<<"a">>, <<"2">>)))
    /\ Len(req.headers) = 2
    /\ req.headers[1].name = <<"b">>
    /\ req.headers[2] = Header(<<"A">>, <<"1">>)

\* C2: in every reachable state no two entries of query have the same name
\* (exact comparison).  The parser pushes every pair of the target, so a
\* target that repeats a name breaks it.
C2_QueryNamesUnique ==
    \A i, j \in DOMAIN req.query :
        i # j => req.query[i].name # req.query[j].name

\* what set_header / add_header (name, value) must do to the headers hs,
\* giving hs2
HeaderUpdated(hs, hs2, name, value) ==
    IF \E i \in DOMAIN hs : SameNameCI(hs[i].name, name)
    THEN LET k == CHOOSE i \in DOMAIN hs :
                     /\ SameNameCI(hs[i].name, name)
                     /\ \A j \in DOMAIN hs : SameNameCI(hs[j].name, name) => i <= j
         IN  /\ Len(hs2) = Len(hs)
             /\ hs2[k].value = value
             /\ hs2[k].name = hs[k].name
             /\ \A j \in DOMAIN hs : j # k => hs2[j] = hs[j]
    ELSE /\ Len(hs2) = Len(hs) + 1
         /\ hs2[Len(hs2)] = [name |-> name, value |-> value]
         /\ \A j \in DOMAIN hs : hs2[j] = hs[j]

\* C4: set_header(name, value) and add_header(name, value) have the same
\* effect on headers: a stored header whose name matches case-insensitively
\* gets the value, keeping its stored name and position and every other
\* header; otherwise exactly one header (name, value) is appended.
C4_SetAddHeader ==
    [][ call'.op \in {"set_header", "add_header"}
            => HeaderUpdated(req.headers, req'.headers, call'.a1, call'.a2) ]_vars

\* C4 witness: add_header updated the first of two headers, whose stored
\* name differs in case from the argument.
C4_Witness ==
    /\ call.op = "add_header"
    /\ Len(req.headers) = 2
    /\ req.headers[1].name # call.a1
    /\ SameNameCI(req.headers[1].name, call.a1)
    /\ req.headers[1].value = call.a2
    /\ req.headers[2].value # call.a2

IsPrefix(s, t) == Len(s) <= Len(t) /\ SubSeq(t, 1, Len(s)) = s

\* C10: parse_from_str on any reachable Request keeps the headers and the
\* query held before the call as prefixes of those held after it, leaves
\* version unchanged, and writes a body that does not depend on the old one.
C10_ParseAppendOnly ==
    [][ call'.op = "parse_from_str"
            => /\ IsPrefix(req.headers, req'.headers)
               /\ IsPrefix(req.query, req'.query)
               /\ req'.version = req.version
               /\ \A b \in {<<>>, <<"x">>, <<"y">>} :
                     parse_from_str([req EXCEPT !.body = b], call'.a1).body = req'.body ]_vars

\* C10 witness: a parse of a text whose version token is not the stored
\* version appended a header and a pair behind ones that were not in the
\* text, and replaced the body.
C10_Witness ==
    /\ call.op = "parse_from_str"
    /\ Contains(call.a1, HTTP10)
    /\ req.version = HTTP11
    /\ Len(req.headers) = 2
    /\ req.headers[1].name = <<"A">>
    /\ req.headers[2] = Header(<<"b">>, <<"2">>)
    /\ req.query = <<Query(<<"A">>, <<"2">>), Query(<<"b">>, <<"1">>)>>
    /\ req.body = <<"x">>

----------------------------------------------------------------------------
(* build as a function of any Request                                      *)

\* bounds on the collections of the Requests handed to build
MaxBuildHeaders == 2

MaxBuildQuery == 2

SeqsUpTo(S, n) == UNION {[1..k -> S] : k \in 0..n}

\* a name or value parse_query_string can produce
Parseable(text) == \A i \in DOMAIN text : text[i] \notin {"?", "&", "=", SP, LF}

\* Requests the mutators and the parser can produce: header names differ
\* case-insensitively (set_header, add_header and parse_header_line check);
\* a query name is repeated only by the parser
BuildRequests ==
    { r \in
        [headers     : SeqsUpTo({Header(<<"A">>, <<"1">>), Header(<<"b">>, <<>>),
                                 Header(<<"c">>, <<":", SP>>)}, MaxBuildHeaders),
         query       : SeqsUpTo({Query(<<"a">>, <<"1">>), Query(<<"A">>, <<>>),
                                 Query(<<"?">>, <<"=">>)}, MaxBuildQuery),
         body        : {<<>>, <<"x", CR, LF>>},
         method      : Methods,
         path        : {<<>>, <<"/">>, <<"/", "?", "q">>},
         full_path   : {<<>>, <<"/", "f">>},
         version     : {HTTP11, <<>>},
         initialized : {TRUE}] :
        /\ \A i, j \in DOMAIN r.headers :
              i # j => to_lowercase(r.headers[i].name) # to_lowercase(r.headers[j].name)
        /\ \A i, j \in DOMAIN r.query :
              (i # j /\ r.query[i].name = r.query[j].name)
                 => Parseable(r.query[i].name) /\ Parseable(r.query[i].value)
                    /\ Parseable(r.query[j].value) }

InitBuild ==
    /\ req \in BuildRequests
    /\ call = NoCall
    /\ input = <<>>
    /\ built = <<>>
    /\ copy = New
    /\ pc = "ready"

Build ==
    /\ pc = "ready"
    /\ built' = build(req)
    /\ call' = Call("build", <<>>, <<>>)
    /\ pc' = "built"
    /\ UNCHANGED <<req, input, copy>>

NextBuild == Build

SpecBuild == InitBuild /\ [][NextBuild]_vars

\* the text build is to return, with the given mark before the first pair
BuiltText(r, mark) ==
    LET pairs  == [i \in DOMAIN r.query |-> r.query[i].name \o <<"=">> \o r.query[i].value]
        target == IF r.query = <<>> THEN r.path
                  ELSE r.path \o mark \o Join(pairs, <<"&">>)
        hdrs   == [i \in DOMAIN r.headers |->
                      CRLF \o r.headers[i].name \o <<":", SP>> \o r.headers[i].value]
    IN  MethodText(r.method) \o <<SP>> \o target \o <<SP>> \o r.version
          \o Cat(hdrs) \o CRLF \o CRLF \o r.body

\* C3 as stated: build returns method, space, target, space, version, then
\* CRLF and "Name: Value" per header, then CRLF CRLF, then the body, where
\* target is path, or path + "?" + the pairs joined by "&" -- also for a
\* path that itself contains "?".
C3_QuestionMarkAlways ==
    pc = "built" => built = BuiltText(req, <<"?">>)

\* C3 amended: as above, but the pairs follow path after "&" when path
\* contains "?", and after "?" only when it does not.  full_path is not read.
C3_Build ==
    pc = "built" =>
        built = BuiltText(req, IF Contains(req.path, <<"?">>) THEN <<"&">> ELSE <<"?">>)

\* C3 witness: build of a Request whose path contains "?", with two pairs,
\* two headers, a body and a full_path that is not the path.
C3_Witness ==
    /\ pc = "built"
    /\ Contains(req.path, <<"?">>)
    /\ Len(req.query) = 2
    /\ Len(req.headers) = 2
    /\ req.body # <<>>
    /\ req.full_path # <<>>

----------------------------------------------------------------------------
(* parse_from_str on a fresh Request, build, and parse_from_str again      *)

\* bounds on the request texts: lines after the request line, pairs in the
\* target
MaxLines == 3

MaxPairs == 2

\* lines that may follow the request line: blank, header, header whose name
\* is already there in another case, a line with ": " twice, a header with
\* an empty value, a line without ": " that ends in a carriage return
LineChoices ==
    { <<>>,
      <<"A", ":", SP, "1">>,
      <<"a", ":", SP, "2">>,
      <<"b", ":", SP, "1", ":", SP, "2">>,
      <<"b", ":", SP>>,
      <<"x", CR>> }

\* pairs of a query string: plain, a repeated name, an empty value, no "=",
\* "=" twice, empty, and one holding a second "?"
PairChoices ==
    { <<"a", "=", "1">>,
      <<"a", "=", "2">>,
      <<"A", "=">>,
      <<"b">>,
      <<"a", "=", "1", "=", "2">>,
      <<>>,
      <<"?", "a", "=", "1">> }

NonEmptySeqsUpTo(S, n) == UNION {[1..k -> S] : k \in 1..n}

Targets ==
    { p : p \in {<<>>, <<"/">>} }
    \cup { p \o <<"?">> \o Join(ps, <<"&">>) :
             p \in {<<>>, <<"/">>}, ps \in NonEmptySeqsUpTo(PairChoices, MaxPairs) }

\* request lines that are crossed with every tail: three valid ones, a
\* method token in the wrong case, two tokens, no token, four tokens
FewReqLines ==
    { <<"G", "E", "T", SP, "/", SP>> \o HTTP11,
      <<"P", "O", "S", "T", SP, "/", "?", "a", "=", "1", SP>> \o HTTP11,
      <<"P", "U", "T", SP, "/", SP>> \o HTTP10,
      <<"g", "e", "t", SP, "/", "?", "a", "=", "1", SP>> \o HTTP11,
      <<"G", "E", "T", SP, "/">>,
      <<>>,
      <<"P", "O", "S", "T", SP, "/", SP, SP>> \o HTTP11 }

MethodTokens ==
    { MethodText(m) : m \in Methods } \cup { <<"g", "e", "t">>, <<"P", "o", "s", "t">> }

\* what follows the request line in the texts that vary the request line
FewTails ==
    { <<>>,
      CRLF \o <<"A", ":", SP, "1">> \o CRLF \o CRLF \o <<"x">> }

Tails ==
    { Cat([i \in DOMAIN ls |-> eol \o ls[i]]) \o last :
        ls \in SeqsUpTo(LineChoices, MaxLines),
        eol \in {<<LF>>, CRLF},
        last \in {<<>>, <<LF>>} }

ParseTexts ==
    { l \o t : l \in FewReqLines, t \in Tails }
    \cup { m \o <<SP>> \o g \o <<SP>> \o HTTP11 \o t :
             m \in {<<"G", "E", "T">>, <<"P", "O", "S", "T">>}, g \in Targets,
             t \in {CRLF \o <<"A", ":", SP, "1">> \o CRLF \o CRLF \o <<"x">>} }
    \cup { m \o <<SP, "/", "?", "a", "=", "1", SP>> \o HTTP11 \o t :
             m \in MethodTokens, t \in FewTails }

InitParse ==
    /\ input \in ParseTexts
    /\ req = New
    /\ call = NoCall
    /\ built = <<>>
    /\ copy = New
    /\ pc = "text"

ParseText ==
    /\ pc = "text"
    /\ req' = parse_from_str(req, input)
    /\ call' = Call("parse_from_str", input, <<>>)
    /\ pc' = "ready"
    /\ UNCHANGED <<input, built, copy>>

ParseAgain ==
    /\ pc = "built"
    /\ copy' = parse_from_str(copy, built)
    /\ call' = Call("parse_from_str", built, <<>>)
    /\ pc' = "reparsed"
    /\ UNCHANGED <<req, input, built>>

NextParse ==
    \/ ParseText
    \/ Build
    \/ ParseAgain

SpecParse == InitParse /\ [][NextParse]_vars

----------------------------------------------------------------------------
(* Claims about parse_from_str on a fresh Request                          *)

\* parse_from_str(input) has just returned: req holds its result
Parsed == pc = "ready" /\ call.op = "parse_from_str"

Line0(t) == IF Lines(t) = <<>> THEN <<>> ELSE Lines(t)[1]

Tokens(t) == Split(Line0(t), <<SP>>)

\* line 0 has exactly three space-separated tokens, the first a method token
ValidRequestLine(t) ==
    /\ Lines(t) # <<>>
    /\ Len(Tokens(t)) = 3
    /\ \E m \in Methods : MethodText(m) = Tokens(t)[1]

Target(t) == Tokens(t)[2]

\* number of places where p occurs in s
Count(s, p) ==
    Cardinality({i \in 1..Len(s) :
                    i + Len(p) - 1 <= Len(s) /\ SubSeq(s, i, i + Len(p) - 1) = p})

\* first place where p occurs in s (p occurs in s)
FirstAt(s, p) ==
    CHOOSE i \in 1..Len(s) :
        /\ i + Len(p) - 1 <= Len(s) /\ SubSeq(s, i, i + Len(p) - 1) = p
        /\ \A j \in 1..(i - 1) : SubSeq(s, j, j + Len(p) - 1) # p

Before(s, p) == SubSeq(s, 1, FirstAt(s, p) - 1)

After(s, p) == SubSeq(s, FirstAt(s, p) + Len(p), Len(s))

\* C5: for a text with a valid request line, parsing it, building the
\* result and parsing the built text into a fresh Request gives the same
\* method, path, headers, query and body.
C5_RoundTrip ==
    (pc = "reparsed" /\ ValidRequestLine(input)) =>
        /\ copy.method = req.method
        /\ copy.path = req.path
        /\ copy.headers = req.headers
        /\ copy.query = req.query
        /\ copy.body = req.body

\* C5 witness: the round trip of a POST with a pair, a header and a body.
C5_Witness ==
    /\ pc = "reparsed"
    /\ ValidRequestLine(input)
    /\ req.method = "POST"
    /\ Len(req.query) = 1
    /\ Len(req.headers) = 1
    /\ req.body # <<>>
    /\ copy.body = req.body

\* t with its line 0 replaced by l
WithLine0(t, l) == Join(<<l>> \o Tail(Split(t, <<LF>>)), <<LF>>)

\* C6: after a malformed request line (not three tokens, or an unknown
\* method token) the fresh Request keeps method GET, empty path, full_path
\* and query, is initialized, and holds the headers it would hold after a
\* valid GET request line followed by the same lines.
C6_MalformedRequestLine ==
    (Parsed /\ ~ ValidRequestLine(input)) =>
        /\ req.method = "GET"
        /\ req.path = <<>>
        /\ req.full_path = <<>>
        /\ req.query = <<>>
        /\ req.initialized
        /\ req.headers =
             parse_from_str(New, WithLine0(input, <<"G", "E", "T", SP, "/", SP>> \o HTTP11)).headers

\* C6 witness: a request line of three tokens with an unknown method token
\* and a target with a pair, followed by lines that gave two headers.
C6_Witness ==
    /\ Parsed
    /\ ~ ValidRequestLine(input)
    /\ Len(Tokens(input)) = 3
    /\ Contains(Target(input), <<"=">>)
    /\ Len(req.headers) = 2

\* the lines that follow the first blank line after line 0
RECURSIVE AfterBlank(_)
AfterBlank(lines) ==
    IF lines = <<>> THEN <<>>
    ELSE IF lines[1] = <<>> THEN Tail(lines)
    ELSE AfterBlank(Tail(lines))

\* C7: for a valid POST or PUT request line, body is the CRLF-join of every
\* line that follows the first blank line, blank lines included.  The loop
\* skips every blank line before it looks at read_body, so blank lines of
\* the body are lost.
C7_BodyKeepsEveryLine ==
    (Parsed /\ ValidRequestLine(input) /\ req.method \in {"POST", "PUT"}) =>
        req.body = Join(AfterBlank(Tail(Lines(input))), CRLF)

\* the lines after line 0 that are read outside the body section
RECURSIVE UntilBlank(_)
UntilBlank(lines) ==
    IF lines = <<>> THEN <<>>
    ELSE IF lines[1] = <<>> THEN <<>>
    ELSE <<lines[1]>> \o UntilBlank(Tail(lines))

HeaderSection(t, method) ==
    IF Lines(t) = <<>> THEN <<>>
    ELSE IF method \in {"POST", "PUT"} THEN UntilBlank(Tail(Lines(t)))
    ELSE Tail(Lines(t))

\* the headers the lines give, first name wins; a line with ": " more than
\* once is split at the first one (once) or ignored (~ once)
RECURSIVE HeadersOf(_, _, _)
HeadersOf(hs, lines, once) ==
    IF lines = <<>> THEN hs
    ELSE LET line == lines[1]
             n    == Count(line, <<":", SP>>)
         IN  IF n = 0 \/ (n > 1 /\ ~ once)
                \/ \E i \in DOMAIN hs : SameNameCI(hs[i].name, Before(line, <<":", SP>>))
             THEN HeadersOf(hs, Tail(lines), once)
             ELSE HeadersOf(
                    Append(hs, [name  |-> Before(line, <<":", SP>>),
                                value |-> After(line, <<":", SP>>)]),
                    Tail(lines), once)

\* C8 as stated: every line outside the body section that contains ": " is
\* split once at its first ": ", so a value may contain ": ".
C8_SplitAtFirst ==
    Parsed => req.headers = HeadersOf(<<>>, HeaderSection(input, req.method), TRUE)

\* C8 amended: a line outside the body section gives a header only when
\* ": " occurs in it exactly once; a line where it occurs twice or more is
\* ignored, like a line without it.  The first of two case-insensitively
\* equal names wins.
C8_HeaderLines ==
    Parsed => req.headers = HeadersOf(<<>>, HeaderSection(input, req.method), FALSE)

\* C8 witness: three lines were read as header lines: one stored, one with
\* the same name in another case, one with ": " twice.
C8_Witness ==
    /\ Parsed
    /\ Len(HeaderSection(input, req.method)) = 3
    /\ \E i \in 1..3 : Count(HeaderSection(input, req.method)[i], <<":", SP>>) = 2
    /\ \E i \in 1..3 : HeaderSection(input, req.method)[i] = <<"a", ":", SP, "2">>
    /\ req.headers = <<[name |-> <<"A">>, value |-> <<"1">>]>>

\* the pairs a query string gives; a pair with "=" more than once is split
\* at the first one (once) or skipped (~ once)
RECURSIVE PairsOf(_, _)
PairsOf(pairs, once) ==
    IF pairs = <<>> THEN <<>>
    ELSE LET n == Count(pairs[1], <<"=">>)
         IN  IF n = 0 \/ (n > 1 /\ ~ once)
             THEN PairsOf(Tail(pairs), once)
             ELSE <<[name  |-> Before(pairs[1], <<"=">>),
                     value |-> After(pairs[1], <<"=">>)]>>
                  \o PairsOf(Tail(pairs), once)

PathOf(target) ==
    IF Contains(target, <<"?">>) THEN Before(target, <<"?">>) ELSE target

\* C9 as stated: the target is split once at its first "?", the text after
\* it on "&", and each pair once at its first "=".
C9_SplitAtFirst ==
    (Parsed /\ ValidRequestLine(input)) =>
        /\ req.full_path = Target(input)
        /\ req.path = PathOf(Target(input))
        /\ req.query =
             IF Contains(Target(input), <<"?">>)
             THEN PairsOf(Split(After(Target(input), <<"?">>), <<"&">>), TRUE)
             ELSE <<>>

\* C9 amended: path is the text before the first "?" and full_path the
\* whole target; pairs are read only when the target holds exactly one "?",
\* and a pair is appended only when it holds exactly one "="; every other
\* pair is skipped and the rest are still appended.
C9_Target ==
    (Parsed /\ ValidRequestLine(input)) =>
        /\ req.full_path = Target(input)
        /\ req.path = PathOf(Target(input))
        /\ req.query =
             IF Count(Target(input), <<"?">>) = 1
             THEN PairsOf(Split(After(Target(input), <<"?">>), <<"&">>), FALSE)
             ELSE <<>>

\* C9 witness: a target with one "?" and two pairs, one of them with "="
\* twice; the other one was appended.
C9_Witness ==
    /\ Parsed
    /\ ValidRequestLine(input)
    /\ Count(Target(input), <<"?">>) = 1
    /\ Count(Target(input), <<"&">>) = 1
    /\ Count(Target(input), <<"=">>) = 3
    /\ Len(req.query) = 1

====
